---- MODULE Spec2Model ----
(***************************************************************************)
(* Model of python_scripts/etl_daily_calculate_salary_per_hour_per_branch  *)
(*                                                                         *)
(* A data frame is a record [cols, rows]: the set of its column names and  *)
(* the sequence of its rows, a row being a function from column names to   *)
(* cells.  Cells:                                                          *)
(*   - integer columns (ids, salary, year, month) hold TLA+ integers;      *)
(*   - <<"str", a, b, c>> is the CSV text "a-b-c" (a date) or "a:b:c"      *)
(*     (a time of day), NaN a missing CSV cell;                            *)
(*   - <<"date", y, m, d>> is a python datetime.date object;               *)
(*   - <<"ts", y, m, d>> is a pandas Timestamp at midnight, NaT a missing  *)
(*     one; <<"td", s>> is a Timedelta of s seconds;                       *)
(*   - <<"hours", n, exact>> is a float of n/3600 hours; exact tells      *)
(*     whether the double holds n/3600 exactly or only to within its       *)
(*     rounding error; <<"cents", c>> is the float c/100 (a value rounded  *)
(*     to two decimals).  The size of a rounding error is not computed:    *)
(*     where a result depends on it, every outcome it allows is a step.    *)
(***************************************************************************)
EXTENDS FiniteSets, Integers, Sequences, TLC

VARIABLES
    script,   \* the statements being run: the script, or one of its chains
    pc,       \* position in script
    files,    \* the two CSV files as read_csv parses them
    run_date, \* the argument the script gives filter_timesheets_by_date
    data,     \* self.data of the processor currently chained on
    alias,    \* the script variable self.data is the same object as, or "none"
    origin,   \* the frame the current processor was constructed on
    prev,     \* self.data before the last method call
    last,     \* the last method call, [op, args]
    env,      \* the script's module-level data frame variables
    db        \* the database side: connects, executes, rows written, log, end

vars == <<script, pc, files, run_date, data, alias, origin, prev, last, env, db>>

-----------------------------------------------------------------------------
(* Cells *)

NaN == <<"nan">>
NaT == <<"nat">>

isna(v) == v \in {NaN, NaT}

\* pd.to_datetime on one cell: text is parsed, a Timestamp is kept, NaN -> NaT
to_datetime(v) ==
    IF isna(v) THEN NaT
    ELSE IF v[1] = "str" THEN <<"ts", v[2], v[3], v[4]>>
    ELSE v

\* pd.to_timedelta on one cell: "h:m:s" -> seconds, NaN -> NaT
to_timedelta(v) ==
    IF isna(v) THEN NaT
    ELSE IF v[1] = "str" THEN <<"td", v[2] * 3600 + v[3] * 60 + v[4]>>
    ELSE v

\* Timestamp <= Timestamp; any comparison with NaT is False
TsLE(a, b) ==
    /\ ~isna(a) /\ ~isna(b)
    /\ \/ a[2] < b[2]
       \/ a[2] = b[2] /\ a[3] < b[3]
       \/ a[2] = b[2] /\ a[3] = b[3] /\ a[4] <= b[4]

\* Timedelta > Timedelta; any comparison with NaT is False
TdGT(a, b) == ~isna(a) /\ ~isna(b) /\ a[2] > b[2]

\* Timedelta - Timedelta; NaT propagates
TdSub(a, b) == IF isna(a) \/ isna(b) THEN NaT ELSE <<"td", a[2] - b[2]>>

\* n/3600 = n/(16 * 225) is a binary fraction, and so a double without
\* rounding error, exactly when 225 divides n
ExactHours(n) == n % 225 = 0

\* .dt.total_seconds() / 3600: the float seconds/3600, NaT -> NaN
total_hours(d) == IF isna(d) THEN NaN ELSE <<"hours", d[2], ExactHours(d[2])>>

\* Series.fillna(0) on one float cell
fillna0(v) == IF isna(v) THEN <<"hours", 0, TRUE>> ELSE v

IntColumns ==
    {"timesheet_id", "employee_id", "employe_id", "branch_id", "salary",
     "year", "month", "salary_per_month", "total_salary"}

\* The position of a cell in the order pandas sorts and compares its column by
CellRank(col, v) ==
    IF col \in IntColumns THEN v
    ELSE IF v[1] \in {"td", "hours", "cents"} THEN v[2]
    ELSE v[2] * 10000 + v[3] * 100 + v[4]

-----------------------------------------------------------------------------
(* Frames *)

Frame(cols, rows) == [cols |-> cols, rows |-> rows]

Range(s) == {s[i] : i \in DOMAIN s}

\* df[col]: a column as a Series, one cell per row
Col(df, col) == [i \in DOMAIN df.rows |-> df.rows[i][col]]

\* df[col] = series: a column assignment
Assign(df, col, series) ==
    Frame(df.cols \cup {col},
          [i \in DOMAIN df.rows |->
              [c \in df.cols \cup {col} |->
                  IF c = col THEN series[i] ELSE df.rows[i][c]]])

\* df[mask]: the rows whose mask cell is true, in order
FilterRows(df, mask) ==
    LET F[i \in 0 .. Len(df.rows)] ==
            IF i = 0 THEN <<>>
            ELSE IF mask[i] THEN Append(F[i - 1], df.rows[i]) ELSE F[i - 1]
    IN  Frame(df.cols, F[Len(df.rows)])

\* The group key of a row: its cells in the key columns
KeyOf(r, keys) == [i \in DOMAIN keys |-> r[keys[i]]]

\* Lexicographic order on group keys
RECURSIVE KeyLess(_, _, _, _)
KeyLess(a, b, keys, i) ==
    IF i > Len(keys) THEN FALSE
    ELSE LET x == CellRank(keys[i], a[i])
             y == CellRank(keys[i], b[i])
         IN  x < y \/ (x = y /\ KeyLess(a, b, keys, i + 1))

\* The distinct group keys in sorted order (groupby sorts its groups)
RECURSIVE SortKeys(_, _)
SortKeys(S, keys) ==
    IF S = {} THEN <<>>
    ELSE LET m == CHOOSE k \in S : \A o \in S \ {k} : KeyLess(k, o, keys, 1)
         IN  <<m>> \o SortKeys(S \ {m}, keys)

GroupKeys(df, keys) == SortKeys({KeyOf(r, keys) : r \in Range(df.rows)}, keys)

\* The positions of the rows of one group
Members(df, keys, g) == {i \in DOMAIN df.rows : KeyOf(df.rows[i], keys) = g}

\* Sum and maximum of the integers f[i], i in S
RECURSIVE SumOver(_, _)
SumOver(S, f) ==
    IF S = {} THEN 0
    ELSE LET i == CHOOSE x \in S : TRUE
         IN  f[i] + SumOver(S \ {i}, f)

MaxOver(S, f) == CHOOSE v \in {f[i] : i \in S} : \A j \in S : f[j] <= v

\* The row of a groupby(keys, as_index=False) result: the key cells and one
\* aggregated cell
GroupRow(keys, g, col, v) ==
    [c \in Range(keys) \cup {col} |->
        IF c = col THEN v ELSE g[CHOOSE i \in DOMAIN keys : keys[i] = c]]

-----------------------------------------------------------------------------
(* class TimesheetEmployeeProcessor: each method as a function of self.data *)

\* __init__(df): self.data is a copy of df, so it shares nothing with df
NewProcessorShared(df) == [data |-> df, shared |-> TRUE]
NewProcessor(df) == [data |-> df, shared |-> FALSE]

\* idxmin / idxmax of one group: the first position holding the least
\* (greatest) ordering value
idxmin(df, ordering_key, S) ==
    CHOOSE i \in S : \A j \in S :
        LET x == CellRank(ordering_key, df.rows[i][ordering_key])
            y == CellRank(ordering_key, df.rows[j][ordering_key])
        IN  x < y \/ (x = y /\ i <= j)

idxmax(df, ordering_key, S) ==
    CHOOSE i \in S : \A j \in S :
        LET x == CellRank(ordering_key, df.rows[i][ordering_key])
            y == CellRank(ordering_key, df.rows[j][ordering_key])
        IN  x > y \/ (x = y /\ i <= j)

remove_duplicate_data_ascending_only(df, partitioning_keys, ordering_key, ascending_order) ==
    LET gs == GroupKeys(df, partitioning_keys)
        idx(g) == idxmin(df, ordering_key, Members(df, partitioning_keys, g))
    IN  Frame(df.cols, [n \in DOMAIN gs |-> df.rows[idx(gs[n])]])

remove_duplicate_data(df, partitioning_keys, ordering_key, ascending_order) ==
    LET gs == GroupKeys(df, partitioning_keys)
        idx(g) == IF ascending_order
                  THEN idxmin(df, ordering_key, Members(df, partitioning_keys, g))
                  ELSE idxmax(df, ordering_key, Members(df, partitioning_keys, g))
    IN  Frame(df.cols, [n \in DOMAIN gs |-> df.rows[idx(gs[n])]])

\* self.data['date'] == date: a text cell equals only the same text
filter_timesheets_by_date(df, date) ==
    FilterRows(df, [i \in DOMAIN df.rows |-> df.rows[i]["date"] = date])

\* The two column conversions filter_valid_data makes in place
filter_valid_data_inplace(df) ==
    Assign(Assign(df, "date", [i \in DOMAIN df.rows |-> to_datetime(df.rows[i]["date"])]),
           "resign_date", [i \in DOMAIN df.rows |-> to_datetime(df.rows[i]["resign_date"])])

filter_valid_data_strict(df) ==
    LET c == filter_valid_data_inplace(df)
        date == Col(c, "date")
        resign_date == Col(c, "resign_date")
    IN  FilterRows(c, [i \in DOMAIN c.rows |->
                          TsLE(date[i], resign_date[i]) /\ date[i] # resign_date[i]])

filter_valid_data(df) ==
    LET c == filter_valid_data_inplace(df)
        date == Col(c, "date")
        resign_date == Col(c, "resign_date")
    IN  FilterRows(c, [i \in DOMAIN c.rows |->
                          TsLE(date[i], resign_date[i]) \/ isna(resign_date[i])])

select_fields(df, fields) ==
    Frame(Range(fields),
          [i \in DOMAIN df.rows |-> [c \in Range(fields) |-> df.rows[i][c]]])

calculate_work_hour_unguarded(df) ==
    LET checkin == [i \in DOMAIN df.rows |-> to_timedelta(df.rows[i]["checkin"])]
        checkout == [i \in DOMAIN df.rows |-> to_timedelta(df.rows[i]["checkout"])]
        c == Assign(Assign(df, "checkin", checkin), "checkout", checkout)
    IN  Assign(c, "work_hour",
               [i \in DOMAIN df.rows |->
                   fillna0(total_hours(TdSub(checkout[i], checkin[i])))])

calculate_work_hour(df) ==
    LET checkin == [i \in DOMAIN df.rows |-> to_timedelta(df.rows[i]["checkin"])]
        checkout == [i \in DOMAIN df.rows |-> to_timedelta(df.rows[i]["checkout"])]
        c == Assign(Assign(df, "checkin", checkin), "checkout", checkout)
    IN  Assign(c, "work_hour",
               [i \in DOMAIN df.rows |->
                   fillna0(IF TdGT(checkin[i], checkout[i])
                           THEN <<"hours", 0, TRUE>>
                           ELSE total_hours(TdSub(checkout[i], checkin[i])))])

\* The in-place part shared by sum_work_hour and get_salary_per_employee:
\* date converted, year and month extracted
with_year_month(df) ==
    LET date == [i \in DOMAIN df.rows |-> to_datetime(df.rows[i]["date"])]
    IN  Assign(Assign(Assign(df, "date", date),
                      "year", [i \in DOMAIN df.rows |-> date[i][2]]),
               "month", [i \in DOMAIN df.rows |-> date[i][3]])

BranchKeys == <<"year", "month", "branch_id">>
EmployeeKeys == <<"year", "month", "branch_id", "employee_id">>

sum_work_hour(df) ==
    LET c == with_year_month(df)
        gs == GroupKeys(c, BranchKeys)
        total(g) == SumOver(Members(c, BranchKeys, g),
                            [i \in DOMAIN c.rows |-> c.rows[i]["work_hour"][2]])
        exact(g) == \A i \in Members(c, BranchKeys, g) : c.rows[i]["work_hour"][3]
    IN  Frame(Range(BranchKeys) \cup {"total_work_hour"},
              [n \in DOMAIN gs |->
                  GroupRow(BranchKeys, gs[n], "total_work_hour",
                           <<"hours", total(gs[n]), exact(gs[n])>>)])

get_salary_per_employee_sum(df) ==
    LET c == with_year_month(df)
        gs == GroupKeys(c, EmployeeKeys)
        tot(g) == SumOver(Members(c, EmployeeKeys, g),
                          [i \in DOMAIN c.rows |-> c.rows[i]["salary"]])
    IN  Frame(Range(EmployeeKeys) \cup {"salary_per_month"},
              [n \in DOMAIN gs |->
                  GroupRow(EmployeeKeys, gs[n], "salary_per_month", tot(gs[n]))])

get_salary_per_employee(df) ==
    LET c == with_year_month(df)
        gs == GroupKeys(c, EmployeeKeys)
        mx(g) == MaxOver(Members(c, EmployeeKeys, g),
                         [i \in DOMAIN c.rows |-> c.rows[i]["salary"]])
    IN  Frame(Range(EmployeeKeys) \cup {"salary_per_month"},
              [n \in DOMAIN gs |->
                  GroupRow(EmployeeKeys, gs[n], "salary_per_month", mx(gs[n]))])

sum_salary_per_branch(df) ==
    LET gs == GroupKeys(df, BranchKeys)
        total(g) == SumOver(Members(df, BranchKeys, g),
                            [i \in DOMAIN df.rows |-> df.rows[i]["salary_per_month"]])
    IN  Frame(Range(BranchKeys) \cup {"total_salary"},
              [n \in DOMAIN gs |->
                  GroupRow(BranchKeys, gs[n], "total_salary", total(gs[n]))])

RECURSIVE BitLen(_)
BitLen(m) == IF m = 0 THEN 0 ELSE 1 + BitLen(m \div 2)

RECURSIVE Pow2(_)
Pow2(e) == IF e = 0 THEN 1 ELSE 2 * Pow2(e - 1)

RECURSIVE Pow2Mod25(_)
Pow2Mod25(e) == IF e = 0 THEN 1 ELSE (2 * Pow2Mod25(e - 1)) % 25

\* rint(x * 100) for the double x nearest m/200, m odd: the decimal tie
\* m/2.  The 53-bit mantissa of x is (m * 2^e - rho) / 25, rho the residue
\* of m * 2^e modulo 25 nearest zero, so x * 100 is m/2 - rho * 2^-(e+1)
\* before the product is rounded to a double.  That is m/2 itself, and rint
\* takes the even neighbour, unless the offset exceeds half the spacing of
\* doubles at m/2.
RintTie(m) ==
    LET L == BitLen(m)
        high == 16 * m >= 25 * Pow2(L - 1)
        e == IF high THEN 57 - L ELSE 58 - L
        res == ((m % 25) * Pow2Mod25(e)) % 25
        rho == IF res > 12 THEN res - 25 ELSE res
        k == (m - 1) \div 2
    IN  IF high /\ rho > 8 THEN k
        ELSE IF high /\ rho < -8 THEN k + 1
        ELSE IF k % 2 = 0 THEN k ELSE k + 1

\* np.round(x, 2) = rint(x * 100) / 100 of the double x = num / den
\* (den # 0), in hundredths: every value the computation can give.  Off a
\* decimal tie that is the nearest hundredth.  On a tie the rounding error
\* of x decides: it is computed when the hours divided by are an exact
\* double, and either neighbour is possible when they carry a rounding
\* error of their own.
Round2(num, den, exact) ==
    LET neg == (num < 0) # (den < 0)
        n == IF num < 0 THEN -num ELSE num
        d == IF den < 0 THEN -den ELSE den
        q == (100 * n) \div d
        r == (100 * n) % d
        mag == IF 2 * r < d THEN {q}
               ELSE IF 2 * r > d THEN {q + 1}
               ELSE IF exact THEN {RintTie(2 * q + 1)}
               ELSE {q, q + 1}
    IN  IF neg THEN {-c : c \in mag} ELSE mag

\* The frames holding one cell of outcomes[i] at each row i of df
AssignAny(df, col, outcomes) ==
    {Assign(df, col, series) :
        series \in {f \in [DOMAIN df.rows -> UNION Range(outcomes)] :
                       \A i \in DOMAIN df.rows : f[i] \in outcomes[i]}}

\* total_salary / total_work_hour = total_salary / (n/3600); the result is
\* the set of frames the call can leave
calculate_salary_per_hour_floor(df) ==
    LET h == Col(df, "total_work_hour")
        s == Col(df, "total_salary")
    IN  AssignAny(df, "salary_per_hour",
                  [i \in DOMAIN df.rows |->
                      IF h[i][2] = 0 THEN {<<"cents", 0>>}
                      ELSE {<<"cents", (100 * s[i] * 3600) \div h[i][2]>>}])

calculate_salary_per_hour(df) ==
    LET h == Col(df, "total_work_hour")
        s == Col(df, "total_salary")
    IN  AssignAny(df, "salary_per_hour",
                  [i \in DOMAIN df.rows |->
                      IF h[i][2] = 0 THEN {<<"cents", 0>>}
                      ELSE {<<"cents", c>> :
                               c \in Round2(s[i] * 3600, h[i][2], h[i][3])}])

-----------------------------------------------------------------------------
(* Module-level functions *)

\* pd.merge(left, right, left_on=, right_on=), an inner join: for each left
\* row in order, its matching right rows in order, the columns of both
RECURSIVE MergeRows(_, _, _, _, _)
MergeRows(lrows, right, left_on, right_on, cols) ==
    IF lrows = <<>> THEN <<>>
    ELSE LET l == Head(lrows)
             match(r) == \A i \in DOMAIN left_on : l[left_on[i]] = r[right_on[i]]
             hits == SelectSeq(right.rows, match)
             joined == [n \in DOMAIN hits |->
                          [c \in cols |-> IF c \in DOMAIN l THEN l[c] ELSE hits[n][c]]]
         IN  joined \o MergeRows(Tail(lrows), right, left_on, right_on, cols)

merge(left, right, left_on, right_on) ==
    Frame(left.cols \cup right.cols,
          MergeRows(left.rows, right, left_on, right_on, left.cols \cup right.cols))

\* The VALUES tuples of the INSERT statement, one per record
generate_increment_data_query_skip(records) ==
    [i \in 1 .. (Len(records.rows) - 1) |->
        <<records.rows[i]["year"], records.rows[i]["month"],
          records.rows[i]["branch_id"], records.rows[i]["salary_per_hour"]>>]

generate_increment_data_query(records) ==
    [i \in DOMAIN records.rows |->
        <<records.rows[i]["year"], records.rows[i]["month"],
          records.rows[i]["branch_id"], records.rows[i]["salary_per_hour"]>>]

-----------------------------------------------------------------------------
(* Bounds and input domains *)

\* Rows of a frame handed to remove_duplicate_data, and entries of a frame
\* handed to the filter and the aggregations
MaxRows == 2
MaxEntries == 3

SeqsUpTo(D, n) == UNION {[1 .. k -> D] : k \in 0 .. n}

\* The rows of fix at the positions in S, in order
Pick(fix, S) ==
    LET F[i \in 0 .. Len(fix)] ==
            IF i = 0 THEN <<>>
            ELSE IF i \in S THEN Append(F[i - 1], fix[i]) ELSE F[i - 1]
    IN  F[Len(fix)]

EmployeeCols == {"employe_id", "branch_id", "salary", "join_date", "resign_date"}
TimesheetCols == {"timesheet_id", "employee_id", "date", "checkin", "checkout"}
JoinedCols == EmployeeCols \cup TimesheetCols
RateCols == {"year", "month", "branch_id", "total_work_hour", "total_salary"}

EmployeeRow(e, b, s, j, r) ==
    [employe_id |-> e, branch_id |-> b, salary |-> s, join_date |-> j, resign_date |-> r]

TimesheetRow(t, e, d, ci, co) ==
    [timesheet_id |-> t, employee_id |-> e, date |-> d, checkin |-> ci, checkout |-> co]

May31 == <<"str", 2024, 5, 31>>
Jun01 == <<"str", 2024, 6, 1>>
Jan01 == <<"str", 2024, 1, 1>>
Jun15 == <<"str", 2024, 6, 15>>
Dec31 == <<"str", 2024, 12, 31>>
T0800 == <<"str", 8, 0, 0>>
T0900 == <<"str", 9, 0, 0>>
T1600 == <<"str", 16, 0, 0>>
T1700 == <<"str", 17, 0, 0>>
T1730 == <<"str", 17, 30, 0>>

\* employees.csv and timesheets.csv of a run: any selection of these rows
EmployeeFixture ==
    << EmployeeRow(1, 1, 3000, Jan01, NaN),
       EmployeeRow(1, 1, 1000, Jan01, NaN),
       EmployeeRow(2, 1, 1500, Jan01, May31),
       EmployeeRow(2, 2, 0, Jan01, NaN),
       EmployeeRow(1, 2, 2000, Jun15, Dec31) >>

TimesheetFixture ==
    << TimesheetRow(10, 1, Jun01, T0900, T1700),
       TimesheetRow(11, 1, Jun01, T0800, T1600),
       TimesheetRow(12, 2, Jun01, T1700, T0900),
       TimesheetRow(13, 2, May31, T0900, T1730),
       TimesheetRow(14, 1, May31, T0900, NaN) >>

\* The date argument the script gives filter_timesheets_by_date: the
\* datetime.date of the day before the run
RunDates == {<<"date", 2024, 6, 1>>, <<"date", 2024, 5, 31>>}

\* The date argument a caller of the method may give: a datetime.date, or
\* the text form the method documents ('2020-01-01'), the only form that
\* equals a cell of the CSV's date column
FilterDates == RunDates \cup {Jun01, May31}

\* Frames a caller may construct a processor on
EmployeeRows ==
    {EmployeeRow(e, b, s, Jan01, r) :
        e \in {1, 2}, b \in {1, 2}, s \in {1000, 3000}, r \in {NaN, Dec31}}

TimesheetRows ==
    {TimesheetRow(t, e, d, T0900, co) :
        t \in {10, 11}, e \in {1, 2}, d \in {May31, Jun01}, co \in {T1600, T1700}}

JoinedRow(t, e, b, s, j, d, ci, co, r) ==
    [timesheet_id |-> t, employee_id |-> e, employe_id |-> e, branch_id |-> b,
     salary |-> s, join_date |-> j, resign_date |-> r, date |-> d,
     checkin |-> ci, checkout |-> co]

ValidityRows ==
    {JoinedRow(10, 1, 1, 3000, j, d, T0900, T1700, r) :
        j \in {Jan01, Jun01}, d \in {May31, Jun15}, r \in {NaN, Jun01, Jun15}}

HoursRows ==
    {JoinedRow(10, 1, b, 3000, Jan01, Jun01, ci, co, NaN) :
        b \in {1, 2}, ci \in {NaN, T0900, T1700}, co \in {T0900, T1700}}

SalaryRows ==
    {JoinedRow(10, e, b, s, Jan01, d, T0900, T1700, NaN) :
        e \in {1, 2}, b \in {1, 2}, s \in {1000, 3000}, d \in {May31, Jun01}}

\* An enriched entry as filter_valid_data and select_fields leave it: the
\* two compared dates are Timestamps, the rest is as the CSV files gave it
EnrichedRow(e, b, s, d, ci, co) ==
    [timesheet_id |-> 10, employee_id |-> e, branch_id |-> b, salary |-> s,
     join_date |-> Jan01, resign_date |-> NaT, date |-> to_datetime(d),
     checkin |-> ci, checkout |-> co]

EnrichedRows ==
    {EnrichedRow(e, b, w[1], d, w[2], w[3]) :
        e \in {1, 2}, b \in {1, 2}, d \in {May31, Jun01},
        w \in {<<2000, T0900, T1700>>, <<0, T0900, T1730>>, <<1000, T1700, T0900>>}}

RateRow(b, h, s) ==
    [year |-> 2024, month |-> 6, branch_id |-> b,
     total_work_hour |-> <<"hours", h, ExactHours(h)>>, total_salary |-> s]

\* Joined aggregates: at most one row per branch
RateFrames ==
    LET R == {RateRow(1, h, s) :
                 h \in {0, 9600, 8 * 3600, 10 * 3600, 40 * 3600, 400 * 3600},
                 s \in {0, 1, 23, 125, 3000}}
    IN  {Frame(RateCols, <<>>)} \cup
        {Frame(RateCols, <<r>>) : r \in R} \cup
        {Frame(RateCols, <<r, RateRow(2, 3 * 3600, 2000)>>) : r \in R}

-----------------------------------------------------------------------------
(* The module-level script, statement by statement *)

Step(op, args) == [op |-> op, args |-> args]

SelectedJoinedFields ==
    <<"timesheet_id", "employee_id", "branch_id", "salary", "join_date",
      "resign_date", "date", "checkin", "checkout">>
SelectedRateFields == <<"year", "month", "branch_id", "salary_per_hour">>

Script ==
    << Step("new", <<>>),
       Step("load_data_from_csv", <<"employees">>),
       Step("remove_duplicate_data", <<<<"employe_id", "branch_id">>, "salary", FALSE>>),
       Step("get_data", <<"employee_data">>),
       Step("new", <<>>),
       Step("load_data_from_csv", <<"timesheets">>),
       Step("filter_timesheets_by_date", <<>>),
       Step("remove_duplicate_data", <<<<"employee_id", "date">>, "timesheet_id", TRUE>>),
       Step("get_data", <<"timesheet_data">>),
       Step("merge", <<"timesheet_data", "employee_data", <<"employee_id">>,
                       <<"employe_id">>, "joined_employee_timesheet_data">>),
       Step("new", <<"joined_employee_timesheet_data">>),
       Step("filter_valid_data", <<>>),
       Step("select_fields", <<SelectedJoinedFields>>),
       Step("get_data", <<"employee_timesheet_data">>),
       Step("new", <<"employee_timesheet_data">>),
       Step("calculate_work_hour", <<>>),
       Step("sum_work_hour", <<>>),
       Step("get_data", <<"work_hour_data">>),
       Step("new", <<"employee_timesheet_data">>),
       Step("get_salary_per_employee", <<>>),
       Step("sum_salary_per_branch", <<>>),
       Step("get_data", <<"salary_data">>),
       Step("merge", <<"work_hour_data", "salary_data", BranchKeys, BranchKeys,
                       "joined_work_hour_salary_data">>),
       Step("new", <<"joined_work_hour_salary_data">>),
       Step("calculate_salary_per_hour", <<>>),
       Step("select_fields", <<SelectedRateFields>>),
       Step("get_data", <<"salary_per_hour_data">>),
       Step("generate_increment_data_query", <<>>),
       Step("connect", <<>>),
       Step("execute", <<>>) >>

End == Len(Script) + 1

None == Frame({}, <<>>)

NoCall == Step("none", <<>>)

EnvInit ==
    [employee_data |-> None, timesheet_data |-> None,
     joined_employee_timesheet_data |-> None, employee_timesheet_data |-> None,
     work_hour_data |-> None, salary_data |-> None,
     joined_work_hour_salary_data |-> None, salary_per_hour_data |-> None,
     increment_data_query |-> <<>>]

DbInit == [connects |-> 0, executes |-> 0, rows |-> <<>>, log |-> <<>>, exit |-> "running"]

\* except SQLAlchemyError: print the error; the script then ends
except_retry(at) == [pc |-> at, exit |-> "running"]
except_SQLAlchemyError(at) == [pc |-> End, exit |-> "caught"]

-----------------------------------------------------------------------------
(* A method call on the current processor.  effect.data is the new          *)
(* self.data; effect.inplace is what the object self.data was bound to      *)
(* holds afterwards; effect.rebinds tells whether self.data is a new object *)

Rebound(d, f) == [data |-> f, inplace |-> d, rebinds |-> TRUE]
InPlace(f) == [data |-> f, inplace |-> f, rebinds |-> FALSE]

\* The effects a call can have: one, but for a result that depends on a
\* float's rounding error
Effects(op, args, d) ==
    CASE op = "load_data_from_csv" -> {Rebound(d, files[args[1]])}
      [] op = "remove_duplicate_data" ->
            {Rebound(d, remove_duplicate_data(d, args[1], args[2], args[3]))}
      [] op = "filter_timesheets_by_date" ->
            {Rebound(d, filter_timesheets_by_date(d, args[1]))}
      [] op = "filter_valid_data" ->
            {Rebound(filter_valid_data_inplace(d), filter_valid_data(d))}
      [] op = "select_fields" -> {Rebound(d, select_fields(d, args[1]))}
      [] op = "calculate_work_hour" -> {InPlace(calculate_work_hour(d))}
      [] op = "sum_work_hour" -> {Rebound(with_year_month(d), sum_work_hour(d))}
      [] op = "get_salary_per_employee" ->
            {Rebound(with_year_month(d), get_salary_per_employee(d))}
      [] op = "sum_salary_per_branch" -> {Rebound(d, sum_salary_per_branch(d))}
      [] op = "calculate_salary_per_hour" ->
            {InPlace(f) : f \in calculate_salary_per_hour(d)}

Call(op, args) ==
    \E e \in Effects(op, args, data) :
        /\ data' = e.data
        /\ prev' = data
        /\ last' = Step(op, args)
        /\ env' = IF alias = "none" THEN env ELSE [env EXCEPT ![alias] = e.inplace]
        /\ alias' = IF e.rebinds THEN "none" ELSE alias

At(op) == pc \in DOMAIN script /\ script[pc].op = op

\* A method called by the script at pc
ScriptCall(op, args) ==
    /\ Call(op, args)
    /\ pc' = pc + 1
    /\ UNCHANGED <<script, files, run_date, origin, db>>

-----------------------------------------------------------------------------
(* The script's steps *)

S_new ==
    /\ At("new")
    /\ LET a == script[pc].args
           p == IF a = <<>> THEN [data |-> None, shared |-> FALSE]
                ELSE NewProcessor(env[a[1]])
       IN  /\ data' = p.data
           /\ alias' = IF p.shared THEN a[1] ELSE "none"
    /\ origin' = data'
    /\ prev' = None
    /\ last' = NoCall
    /\ pc' = pc + 1
    /\ UNCHANGED <<script, files, run_date, env, db>>

S_load_data_from_csv ==
    /\ At("load_data_from_csv")
    /\ ScriptCall("load_data_from_csv", script[pc].args)

S_remove_duplicate_data ==
    /\ At("remove_duplicate_data")
    /\ ScriptCall("remove_duplicate_data", script[pc].args)

S_filter_timesheets_by_date ==
    /\ At("filter_timesheets_by_date")
    /\ ScriptCall("filter_timesheets_by_date", <<run_date>>)

S_filter_valid_data ==
    /\ At("filter_valid_data")
    /\ ScriptCall("filter_valid_data", <<>>)

S_select_fields ==
    /\ At("select_fields")
    /\ ScriptCall("select_fields", script[pc].args)

S_calculate_work_hour ==
    /\ At("calculate_work_hour")
    /\ ScriptCall("calculate_work_hour", <<>>)

S_sum_work_hour ==
    /\ At("sum_work_hour")
    /\ ScriptCall("sum_work_hour", <<>>)

S_get_salary_per_employee ==
    /\ At("get_salary_per_employee")
    /\ ScriptCall("get_salary_per_employee", <<>>)

S_sum_salary_per_branch ==
    /\ At("sum_salary_per_branch")
    /\ ScriptCall("sum_salary_per_branch", <<>>)

S_calculate_salary_per_hour ==
    /\ At("calculate_salary_per_hour")
    /\ ScriptCall("calculate_salary_per_hour", <<>>)

S_get_data ==
    /\ At("get_data")
    /\ env' = [env EXCEPT ![script[pc].args[1]] = data]
    /\ pc' = pc + 1
    /\ UNCHANGED <<script, files, run_date, data, alias, origin, prev, last, db>>

S_merge ==
    /\ At("merge")
    /\ LET a == script[pc].args
       IN  env' = [env EXCEPT ![a[5]] = merge(env[a[1]], env[a[2]], a[3], a[4])]
    /\ pc' = pc + 1
    /\ UNCHANGED <<script, files, run_date, data, alias, origin, prev, last, db>>

S_generate_increment_data_query ==
    /\ At("generate_increment_data_query")
    /\ env' = [env EXCEPT !.increment_data_query =
                  generate_increment_data_query(env.salary_per_hour_data)]
    /\ pc' = pc + 1
    /\ UNCHANGED <<script, files, run_date, data, alias, origin, prev, last, db>>

\* try: load_dotenv(); create_engine(... os.getenv ...); db_engine.connect()
\* A missing environment variable makes the string concatenation raise a
\* TypeError, which the except clause does not catch
S_connect ==
    /\ At("connect")
    /\ \/ /\ db' = [db EXCEPT !.connects = @ + 1]
          /\ pc' = pc + 1
       \/ LET h == except_SQLAlchemyError(pc)
          IN  /\ db' = [db EXCEPT !.connects = @ + 1,
                                  !.log = Append(@, "Error"),
                                  !.exit = h.exit]
              /\ pc' = h.pc
       \/ /\ db' = [db EXCEPT !.exit = "crashed"]
          /\ pc' = End
    /\ UNCHANGED <<script, files, run_date, data, alias, origin, prev, last, env>>

\* db_connection.execute(increment_data_query); a statement with no VALUES
\* tuple is not valid SQL and can only fail
S_execute ==
    /\ At("execute")
    /\ \/ /\ env.increment_data_query # <<>>
          /\ db' = [db EXCEPT !.executes = @ + 1,
                              !.rows = @ \o env.increment_data_query,
                              !.exit = "ok"]
          /\ pc' = pc + 1
       \/ LET h == except_SQLAlchemyError(pc)
          IN  /\ db' = [db EXCEPT !.executes = @ + 1,
                                  !.log = Append(@, "Error"),
                                  !.exit = h.exit]
              /\ pc' = h.pc
    /\ UNCHANGED <<script, files, run_date, data, alias, origin, prev, last, env>>

Init ==
    /\ script = Script
    /\ pc = 1
    /\ files \in {[employees |-> Frame(EmployeeCols, Pick(EmployeeFixture, S)),
                   timesheets |-> Frame(TimesheetCols, Pick(TimesheetFixture, T))] :
                     S \in SUBSET DOMAIN EmployeeFixture,
                     T \in SUBSET DOMAIN TimesheetFixture}
    /\ run_date \in RunDates
    /\ data = None
    /\ alias = "none"
    /\ origin = None
    /\ prev = None
    /\ last = NoCall
    /\ env = EnvInit
    /\ db = DbInit

Next ==
    \/ S_new
    \/ S_load_data_from_csv
    \/ S_remove_duplicate_data
    \/ S_filter_timesheets_by_date
    \/ S_get_data
    \/ S_merge
    \/ S_filter_valid_data
    \/ S_select_fields
    \/ S_calculate_work_hour
    \/ S_sum_work_hour
    \/ S_get_salary_per_employee
    \/ S_sum_salary_per_branch
    \/ S_calculate_salary_per_hour
    \/ S_generate_increment_data_query
    \/ S_connect
    \/ S_execute

Spec == Init /\ [][Next]_vars

-----------------------------------------------------------------------------------------------------------------------------------------------------
(* The parts of the program on any input: a processor constructed on any   *)
(* frame, running one of the script's method chains on it; and the         *)
(* statements the script runs on its enriched entries, from the work-hour  *)
(* pass to the insert, on any frame of enriched entries                    *)

Dedup(keys, ordering_key, ascending_order) ==
    <<Step("remove_duplicate_data", <<keys, ordering_key, ascending_order>>)>>

EmployeeChains ==
    { SubSeq(Script, 3, 3),
      Dedup(<<"employe_id">>, "salary", TRUE),
      Dedup(<<"branch_id", "salary">>, "employe_id", FALSE) }

TimesheetChains ==
    { SubSeq(Script, 7, 8),
      SubSeq(Script, 8, 8),
      Dedup(<<"employee_id">>, "timesheet_id", FALSE),
      Dedup(<<"date">>, "employee_id", TRUE) }

ProcessorRuns ==
    ({Frame(EmployeeCols, rs) : rs \in SeqsUpTo(EmployeeRows, MaxRows)}
        \X EmployeeChains) \cup
    ({Frame(TimesheetCols, rs) : rs \in SeqsUpTo(TimesheetRows, MaxRows)}
        \X TimesheetChains) \cup
    ({Frame(JoinedCols, rs) : rs \in SeqsUpTo(ValidityRows, MaxEntries)}
        \X {SubSeq(Script, 12, 13)}) \cup
    ({Frame(JoinedCols, rs) : rs \in SeqsUpTo(HoursRows, MaxEntries)}
        \X {SubSeq(Script, 16, 17)}) \cup
    ({Frame(JoinedCols, rs) : rs \in SeqsUpTo(SalaryRows, MaxEntries)}
        \X {SubSeq(Script, 20, 21)}) \cup
    (RateFrames \X {SubSeq(Script, 25, 26)})

\* The script from employee_timesheet_data on
PassesFrom == 15
Passes == SubSeq(Script, PassesFrom, Len(Script))

EnrichedFrames ==
    {Frame(Range(SelectedJoinedFields), rs) : rs \in SeqsUpTo(EnrichedRows, MaxRows)}

ProcessorInit ==
    /\ \/ \E run \in ProcessorRuns :
             /\ script = run[2]
             /\ data = NewProcessor(run[1]).data
             /\ env = EnvInit
       \/ \E f \in EnrichedFrames :
             /\ script = Passes
             /\ data = None
             /\ env = [EnvInit EXCEPT !.employee_timesheet_data = f]
    /\ origin = data
    /\ pc = 1
    /\ files = [employees |-> None, timesheets |-> None]
    /\ run_date \in IF At("filter_timesheets_by_date") THEN FilterDates ELSE {NaN}
    /\ alias = "none"
    /\ prev = None
    /\ last = NoCall
    /\ db = DbInit

ProcessorNext ==
    \/ S_new
    \/ S_get_data
    \/ S_merge
    \/ S_generate_increment_data_query
    \/ S_connect
    \/ S_execute
    \/ S_remove_duplicate_data
    \/ S_filter_timesheets_by_date
    \/ S_filter_valid_data
    \/ S_select_fields
    \/ S_calculate_work_hour
    \/ S_sum_work_hour
    \/ S_get_salary_per_employee
    \/ S_sum_salary_per_branch
    \/ S_calculate_salary_per_hour

ProcessorSpec == ProcessorInit /\ [][ProcessorNext]_vars

-----------------------------------------------------------------------------
(* Properties *)

Called(op) == last.op = op

\* The n-th smallest element of a set of positions
NthOf(S, n) == CHOOSE i \in S : Cardinality({j \in S : j < i}) = n - 1

\* A date cell as a calendar day, whatever its representation
Day(v) == <<v[2], v[3], v[4]>>
DayLE(a, b) ==
    \/ a[1] < b[1]
    \/ a[1] = b[1] /\ a[2] < b[2]
    \/ a[1] = b[1] /\ a[2] = b[2] /\ a[3] <= b[3]

\* A text time of day in seconds
Seconds(v) == v[2] * 3600 + v[3] * 60 + v[4]

\* C1: remove_duplicate_data returns exactly one record per partition-key
\* combination of its input, and that record is the first input record of
\* its partition holding the least (ascending) or greatest (descending)
\* ordering value; an empty input gives an empty output.
C1_OnePerPartition ==
    Called("remove_duplicate_data") =>
        LET keys == last.args[1]
            ord == last.args[2]
            asc == last.args[3]
            present == {KeyOf(prev.rows[i], keys) : i \in DOMAIN prev.rows}
            rank(i) == CellRank(ord, prev.rows[i][ord])
        IN  /\ Len(data.rows) = Cardinality(present)
            /\ \A g \in present :
                  Cardinality({n \in DOMAIN data.rows : KeyOf(data.rows[n], keys) = g}) = 1
            /\ \A n \in DOMAIN data.rows :
                  LET M == {i \in DOMAIN prev.rows :
                               KeyOf(prev.rows[i], keys) = KeyOf(data.rows[n], keys)}
                  IN  \E i \in M :
                        /\ data.rows[n] = prev.rows[i]
                        /\ \A j \in M : IF asc THEN rank(i) <= rank(j)
                                        ELSE rank(i) >= rank(j)
                        /\ \A j \in M : j < i => rank(j) # rank(i)

\* C1 witness: a descending deduplication met a partition whose later
\* record holds the greater ordering value, and collapsed it
C1_Witness ==
    /\ Called("remove_duplicate_data")
    /\ ~last.args[3]
    /\ \E i, j \in DOMAIN prev.rows :
          /\ i < j
          /\ KeyOf(prev.rows[i], last.args[1]) = KeyOf(prev.rows[j], last.args[1])
          /\ prev.rows[i][last.args[2]] < prev.rows[j][last.args[2]]
    /\ Len(data.rows) < Len(prev.rows)

\* C3: filter_valid_data retains exactly the entries whose date is on or
\* before resign_date or whose resign_date is absent, in their order, every
\* other cell unchanged and the two dates the same calendar days.
C3_FilterExact ==
    Called("filter_valid_data") =>
        LET absent(i) == isna(prev.rows[i]["resign_date"])
            kept == {i \in DOMAIN prev.rows :
                        \/ absent(i)
                        \/ DayLE(Day(prev.rows[i]["date"]), Day(prev.rows[i]["resign_date"]))}
        IN  /\ Len(data.rows) = Cardinality(kept)
            /\ data.cols = prev.cols
            /\ \A n \in DOMAIN data.rows :
                  LET old == prev.rows[NthOf(kept, n)]
                      new == data.rows[n]
                  IN  /\ \A c \in prev.cols \ {"date", "resign_date"} : new[c] = old[c]
                      /\ Day(new["date"]) = Day(old["date"])
                      /\ isna(new["resign_date"]) = isna(old["resign_date"])
                      /\ ~isna(old["resign_date"]) =>
                            Day(new["resign_date"]) = Day(old["resign_date"])

\* C3 witness: the filter dropped an entry dated after its resign_date and
\* kept one dated on its resign_date
C3_Witness ==
    /\ Called("filter_valid_data")
    /\ Len(data.rows) < Len(prev.rows)
    /\ \E n \in DOMAIN data.rows : data.rows[n]["date"] = data.rows[n]["resign_date"]

\* C4: calculate_work_hour gives each entry 0 hours when checkin is later
\* than checkout or either is missing, (checkout - checkin) in hours
\* otherwise, so 09:00 to 17:00 is 8 hours; never a negative value.
C4_WorkHour ==
    Called("calculate_work_hour") =>
        /\ Len(data.rows) = Len(prev.rows)
        /\ \A i \in DOMAIN data.rows :
              LET ci == prev.rows[i]["checkin"]
                  co == prev.rows[i]["checkout"]
                  wh == data.rows[i]["work_hour"]
              IN  /\ wh[1] = "hours"
                  /\ wh[2] >= 0
                  /\ wh[2] = IF isna(ci) \/ isna(co) THEN 0
                             ELSE IF Seconds(ci) > Seconds(co) THEN 0
                             ELSE Seconds(co) - Seconds(ci)
                  /\ ci = T0900 /\ co = T1700 => wh[2] = 8 * 3600

\* C4 witness: one frame held an overnight entry (17:00 to 09:00, zeroed)
\* and a 09:00 to 17:00 entry
C4_Witness ==
    /\ Called("calculate_work_hour")
    /\ \E i, j \in DOMAIN prev.rows :
          /\ prev.rows[i]["checkin"] = T1700 /\ prev.rows[i]["checkout"] = T0900
          /\ data.rows[i]["work_hour"][2] = 0
          /\ prev.rows[j]["checkin"] = T0900 /\ prev.rows[j]["checkout"] = T1700
          /\ data.rows[j]["work_hour"][2] = 8 * 3600

\* C5: calculate_salary_per_hour gives 0 when total_work_hour is 0 and
\* otherwise total_salary / total_work_hour to the nearest hundredth
\* (125 over 10 hours is 12.50, 3000 over 8 hours is 375.00).
C5_SalaryPerHour ==
    Called("calculate_salary_per_hour") =>
        /\ Len(data.rows) = Len(prev.rows)
        /\ \A i \in DOMAIN data.rows :
              LET h == prev.rows[i]["total_work_hour"][2]
                  s == prev.rows[i]["total_salary"]
                  c == data.rows[i]["salary_per_hour"][2]
                  err == 100 * s * 3600 - c * h
              IN  /\ h = 0 => c = 0
                  /\ h # 0 => 2 * err <= h /\ 2 * err >= -h
                  /\ h = 10 * 3600 /\ s = 125 => c = 1250
                  /\ h = 8 * 3600 /\ s = 3000 => c = 37500

\* C5 witness: a zero-hour row with a salary, next to a row whose quotient
\* is rounded up
C5_Witness ==
    /\ Called("calculate_salary_per_hour")
    /\ \E i, j \in DOMAIN data.rows :
          /\ data.rows[i]["total_work_hour"][2] = 0
          /\ data.rows[i]["total_salary"] = 3000
          /\ data.rows[i]["salary_per_hour"][2] = 0
          /\ data.rows[j]["salary_per_hour"][2] = 66667

\* The (year, month, branch) keys of a frame holding those columns
BranchKeysOf(df) == {KeyOf(df.rows[i], BranchKeys) : i \in DOMAIN df.rows}

UniqueBranchKeys(df) == Cardinality(BranchKeysOf(df)) = Len(df.rows)

\* The statement at position n of the script has been run
Past(n) ==
    \/ script = Script /\ pc > n
    \/ script = Passes /\ pc > n - (PassesFrom - 1)

\* C2: every entry the validity filter lets through to the aggregates is
\* dated within [join_date, resign_date], or has no resign_date.
C2_EntriesWithinEmployment ==
    Called("filter_valid_data") =>
        \A i \in DOMAIN data.rows :
            LET r == data.rows[i]
            IN  \/ isna(r["resign_date"])
                \/ /\ DayLE(Day(r["join_date"]), Day(r["date"]))
                   /\ DayLE(Day(r["date"]), Day(r["resign_date"]))

\* C6 as stated: in every output row salary_per_hour is non-negative, and it
\* is zero exactly when the row's total worked hours is zero.
C6_ZeroExactlyWhenNoHours ==
    Past(27) =>
        \A i \in DOMAIN env.salary_per_hour_data.rows :
            LET c == env.salary_per_hour_data.rows[i]["salary_per_hour"][2]
                h == env.joined_work_hour_salary_data.rows[i]["total_work_hour"][2]
            IN  c >= 0 /\ (c = 0 <=> h = 0)

\* C6 amended: in every output row salary_per_hour is non-negative (salaries
\* being non-negative) and is zero whenever the row's total worked hours is
\* zero; with hours worked it is zero when total_salary over the hours is
\* under half a hundredth, as with a total salary of zero, and only when it
\* is at most half a hundredth.
C6_ZeroWhenNoHours ==
    Past(27) =>
        /\ Len(env.salary_per_hour_data.rows) = Len(env.joined_work_hour_salary_data.rows)
        /\ \A i \in DOMAIN env.salary_per_hour_data.rows :
              LET c == env.salary_per_hour_data.rows[i]["salary_per_hour"][2]
                  j == env.joined_work_hour_salary_data.rows[i]
                  h == j["total_work_hour"][2]
              IN  /\ KeyOf(env.salary_per_hour_data.rows[i], BranchKeys) = KeyOf(j, BranchKeys)
                  /\ c >= 0
                  /\ h = 0 => c = 0
                  /\ h # 0 /\ j["total_salary"] <= (h - 1) \div (2 * 100 * 3600) => c = 0
                  /\ h # 0 /\ c = 0 => j["total_salary"] <= h \div (2 * 100 * 3600)

\* C6 witness: one output holds a zero rate for a branch with a salary and
\* no hours, and a zero rate for a branch with hours worked
C6_Witness ==
    /\ Past(27)
    /\ \E i, k \in DOMAIN env.salary_per_hour_data.rows :
          /\ env.salary_per_hour_data.rows[i]["salary_per_hour"][2] = 0
          /\ env.joined_work_hour_salary_data.rows[i]["total_work_hour"][2] = 0
          /\ env.joined_work_hour_salary_data.rows[i]["total_salary"] > 0
          /\ env.salary_per_hour_data.rows[k]["salary_per_hour"][2] = 0
          /\ env.joined_work_hour_salary_data.rows[k]["total_work_hour"][2] > 0

\* C7: the hours aggregate, the branch salary aggregate and the combined
\* result hold at most one row per (year, month, branch); the insert
\* statement holds one value tuple per combined row, in order; a successful
\* run writes exactly those tuples, one per key, and any other run writes
\* nothing.
C7_OneRowPerKey ==
    /\ Past(18) => UniqueBranchKeys(env.work_hour_data)
    /\ Past(22) => UniqueBranchKeys(env.salary_data)
    /\ Past(23) => UniqueBranchKeys(env.joined_work_hour_salary_data)
    /\ Past(27) => UniqueBranchKeys(env.salary_per_hour_data)
    /\ Past(28) =>
          LET q == env.increment_data_query
              out == env.salary_per_hour_data.rows
          IN  /\ Len(q) = Len(out)
              /\ \A i \in DOMAIN q :
                    q[i] = <<out[i]["year"], out[i]["month"], out[i]["branch_id"],
                             out[i]["salary_per_hour"]>>
              /\ \A i, j \in DOMAIN q :
                    <<q[i][1], q[i][2], q[i][3]>> = <<q[j][1], q[j][2], q[j][3]>> => i = j
    /\ db.rows = IF db.exit = "ok" THEN env.increment_data_query ELSE <<>>

\* C7 witness: a run over entries of two branches wrote a row for each
C7_Witness ==
    /\ script = Passes
    /\ db.exit = "ok"
    /\ Len(db.rows) = 2
    /\ db.rows[1][3] # db.rows[2][3]

\* C8: after the two salary stages, each (year, month, branch) having an
\* entry in the processor's frame has one row whose total_salary is the sum,
\* over the distinct employees with an entry in the group, of the greatest
\* salary among that employee's entries there; nothing else is in the result.
C8_SalaryPerBranch ==
    Called("sum_salary_per_branch") =>
        LET E == origin.rows
            key(i) == <<E[i]["date"][2], E[i]["date"][3], E[i]["branch_id"]>>
            groups == {key(i) : i \in DOMAIN E}
            emps(g) == {E[i]["employee_id"] : i \in {j \in DOMAIN E : key(j) = g}}
            top(g, e) ==
                LET S == {E[i]["salary"] :
                             i \in {j \in DOMAIN E : key(j) = g /\ E[j]["employee_id"] = e}}
                IN  CHOOSE v \in S : \A w \in S : w <= v
            total(g) == SumOver(emps(g), [e \in emps(g) |-> top(g, e)])
        IN  /\ Len(data.rows) = Cardinality(groups)
            /\ \A g \in groups :
                  \E n \in DOMAIN data.rows :
                      /\ KeyOf(data.rows[n], BranchKeys) = g
                      /\ data.rows[n]["total_salary"] = total(g)

\* C8 witness: an employee had two entries with different salaries in one
\* branch-month, and the branch total counts only the greater
C8_Witness ==
    /\ Called("sum_salary_per_branch")
    /\ \E i, j \in DOMAIN origin.rows :
          /\ origin.rows[i]["employee_id"] = origin.rows[j]["employee_id"]
          /\ origin.rows[i]["branch_id"] = origin.rows[j]["branch_id"]
          /\ origin.rows[i]["date"] = origin.rows[j]["date"]
          /\ origin.rows[i]["salary"] < origin.rows[j]["salary"]
          /\ Len(data.rows) = 1
          /\ data.rows[1]["total_salary"] = origin.rows[j]["salary"]

\* C9: a run connects at most once and attempts the insert at most once,
\* and only after connecting; a failed connect or insert is caught and
\* logged once, and the run is then over: nothing further can happen.
C9_NoRetry ==
    script = Script =>
        /\ db.connects <= 1
        /\ db.executes <= db.connects
        /\ db.log # <<>> => Len(db.log) = 1 /\ db.exit = "caught"
        /\ db.exit = "caught" => db.log # <<>>
        /\ db.exit # "running" => pc = End
        /\ pc = End => ~ENABLED Next

\* C9 witness: the script connected, its insert failed and was logged, and
\* the run is over
C9_Witness ==
    /\ script = Script
    /\ db.connects = 1
    /\ db.executes = 1
    /\ db.exit = "caught"
    /\ db.log = <<"Error">>
    /\ pc = End

\* C10: the hours aggregate and the branch salary aggregate have the same
\* (year, month, branch) keys, the join drops none of them, the output has a
\* row for every key having a valid enriched entry, and the work-hour pass
\* leaves the enriched entry set as the validity filter produced it.
C10_SameKeys ==
    LET ets == env.employee_timesheet_data
        valid == {<<ets.rows[i]["date"][2], ets.rows[i]["date"][3],
                    ets.rows[i]["branch_id"]>> : i \in DOMAIN ets.rows}
    IN  /\ Past(14) =>
              /\ ets.cols = Range(SelectedJoinedFields)
              /\ \A i \in DOMAIN ets.rows :
                    \A c \in {"checkin", "checkout"} :
                        isna(ets.rows[i][c]) \/ ets.rows[i][c][1] = "str"
        /\ Past(18) => BranchKeysOf(env.work_hour_data) = valid
        /\ Past(22) => BranchKeysOf(env.salary_data) = BranchKeysOf(env.work_hour_data)
        /\ Past(23) => /\ BranchKeysOf(env.joined_work_hour_salary_data) = valid
                       /\ Len(env.joined_work_hour_salary_data.rows) = Cardinality(valid)
        /\ Past(27) => BranchKeysOf(env.salary_per_hour_data) = valid

\* C10 witness: both passes ran over entries of two branches
C10_Witness ==
    /\ Past(27)
    /\ Len(env.employee_timesheet_data.rows) >= 2
    /\ Cardinality(BranchKeysOf(env.salary_per_hour_data)) = 2

-----------------------------------------------------------------------------
(* Further observation, outside the claims *)

\* The script hands filter_timesheets_by_date a datetime.date, which equals
\* no text cell of the CSV's date column: a run of the script selects no
\* timesheet, builds a statement without VALUES tuples and writes nothing.
ScriptDateSelectsNothing ==
    script = Script =>
        /\ Past(9) => env.timesheet_data.rows = <<>>
        /\ Past(28) => env.increment_data_query = <<>>
        /\ db.rows = <<>>

\* On a decimal tie the hundredth np.round gives follows the rounding error
\* of the quotient: over 40 hours, a total salary of 23 gives 0.57, of 49
\* gives 1.23 and of 1 gives 0.02, where 125 over 8 hours, an exact double,
\* gives 15.62.
RoundingOnTies ==
    /\ Round2(23 * 3600, 40 * 3600, TRUE) = {57}
    /\ Round2(49 * 3600, 40 * 3600, TRUE) = {123}
    /\ Round2(51 * 3600, 40 * 3600, TRUE) = {127}
    /\ Round2(1 * 3600, 40 * 3600, TRUE) = {2}
    /\ Round2(125 * 3600, 8 * 3600, TRUE) = {1562}
    /\ Round2(1 * 3600, 9600, FALSE) = {37, 38}

====
